---- MODULE Spec2Model ----
(***************************************************************************)
(* Camcookie Dirt Dash (src/game.py): the race controller (Game), the      *)
(* vehicles (Bike), the obstacle field and the frame loop.                 *)
(*                                                                         *)
(* Numbers.  game.py computes positions and speeds in floats.  Here every  *)
(* length, height and speed is an integer number of hundredths of a world  *)
(* unit (x = 4000 is the source's x = 40, GRAVITY = 60 the source's 0.6).  *)
(* Times are integer milliseconds, as in the source.  math.sin is          *)
(* Bhaskara's rational approximation on a 0.2 degree grid, and             *)
(* vx * (1 - FRICTION) is rounded down to the hundredth.                   *)
(*                                                                         *)
(* Size.  The track of the model is shorter than the source's 4000 units   *)
(* (TRACK_LEN below is a bound of the model), the model has fewer bots     *)
(* than the source's 3 (BOT_COUNT is a bound), random draws range over     *)
(* small sets, frames arrive every FrameMs, and external events arrive     *)
(* only on every InputPeriod-th frame and at most MaxInputs times.         *)
(***************************************************************************)
EXTENDS Integers, Sequences, FiniteSets, TLC

VARIABLES
  state,               \* Game.state: "home", "countdown", "running", "paused", "results"
  paused,              \* Game.paused
  pc,                  \* position inside start_race / restart: "idle" or "begin_countdown"
  obs_field,           \* Game.obs_field.items: sequence of obstacles
  player,              \* Game.player: a Bike
  bots,                \* Game.bots: sequence of Bikes
  throttle_down,       \* Game.throttle_down
  brake_down,          \* Game.brake_down
  jump_down,           \* Game.jump_down
  engine_on,           \* Game.engine_on
  countdown_start_ms,  \* Game.countdown_start_ms
  race_start_ms,       \* Game.race_start_ms (None before the first race setup)
  finish_announced,    \* Game.finish_announced
  best_time_ms,        \* Game.best_time_ms
  camera_x,            \* Game.camera_x
  last_t,              \* Game._last_t: the clock reading of the last frame
  hud_ms,              \* the elapsed time last handed to HUD.update
  sim_ms,              \* history: frame deltas summed over the running ticks of this race
  races,               \* history: number of race setups so far
  obs_gen,             \* history: value of races when obs_field was generated
  idle,                \* history: consecutive frames that ran neither countdown nor physics
  inputs,              \* history: number of external events that changed the state
  shown,               \* the rows, placement and victory flag last handed to ui.show_results
  stored_best,         \* localStorage item "dirt_dash_best"
  race_saves,          \* history: calls of _save_best since the last race setup
  mid,                 \* history: player and bots after update_physics of the last tick
  hit_x,               \* history: per vehicle, its x when an obstacle last took effect
  center,              \* Overlays.center_text.text
  cues,                \* history: the centre texts of this countdown, in order of appearance
  beeps,               \* history: the arguments of SOUND.countdown_beep in this countdown
  btn_throttle_active, \* Game.btn_throttle.active: the throttle button is held
  btn_brake_active,    \* Game.btn_brake.active: the brake button is held
  decided              \* history: what bot_decide last returned, per bot

vars == << state, paused, pc, obs_field, player, bots, throttle_down, brake_down,
           jump_down, engine_on, countdown_start_ms, race_start_ms,
           finish_announced, best_time_ms, camera_x, last_t, hud_ms, sim_ms,
           races, obs_gen, idle, inputs, shown, stored_best, race_saves, mid,
           hit_x, center, cues, beeps, btn_throttle_active, btn_brake_active,
           decided >>

----------------------------------------------------------------------------
(* Configuration, game.py lines 15-28, in hundredths of a unit.             *)

None == -1              \* Python's None in a millisecond or bias field

VPW == 192000
GROUND_Y == 72000
GRAVITY == 60
JUMP_VY == 1600
MAX_SPEED == 2200
ACCEL == 25
BRAKE == 35
FRICTION == 1           \* percent: the source's 0.01
CAM_EASE == 8           \* percent: the source's 0.08
COUNTDOWN_MS == 3200
OBSTACLE_SPACING_MIN == 28000
OBSTACLE_SPACING_MAX == 52000

(* Bounds of the model.                                                     *)
TRACK_LEN == 80000      \* the source's track is 4000 units long
BOT_COUNT == 1          \* the source races 3 bots
FrameMs == 800          \* the clock advances by this much from frame to frame
InputPeriod == 35       \* external events arrive on every InputPeriod-th frame
MaxInputs == 3          \* at most this many external events that change the state
MaxRaces == 2           \* at most this many race setups
MaxIdle == 1            \* at most this many consecutive frames without a step
MaxRaceMs == 72000      \* frames stop this long after the race start
TickDepth == 3          \* SpecTick runs this many ticks from each mid-race state
LingerDepth == 22       \* SpecLinger runs this many ticks from each of its states
LongRaceMs == 136000    \* in SpecRace frames stop this long after the race start

Kinds == {"rock", "log", "ramp"}                      \* random.choice, line 305
RaceGaps == {OBSTACLE_SPACING_MIN}                    \* random.randint, line 303
SpeedBiases == {60, 88}                               \* random.uniform(0.60, 0.88), percent
JumpBiases == {70}                                    \* random.uniform(0.55, 0.85), percent

----------------------------------------------------------------------------
(* Helpers and terrain.                                                     *)

\* clamp without its lower branch
clamp_upper_only(v, lo, hi) == IF v > hi THEN hi ELSE v

clamp(v, lo, hi) == IF v > hi THEN hi ELSE IF v < lo THEN lo ELSE v

Abs(v) == IF v < 0 THEN 0 - v ELSE v

Max(a, b) == IF a > b THEN a ELSE b

Min(a, b) == IF a < b THEN a ELSE b

\* 1000 * sin(num / den radians); a half turn is 900 grid steps, 900/pi = den scaling
Sin1000(num, den) ==
  LET r == ((num * 900) \div den) % 1800
      h == IF r <= 900 THEN r ELSE r - 900
      p == h * (900 - h)
      s == (4000 * p) \div (1012500 - p)
  IN  IF r <= 900 THEN s ELSE 0 - s

\* the divisors are 100 * 260 * pi, 100 * 110 * pi and 100 * 55 * pi
terrain_y(x) ==
  GROUND_Y
  + (9000 * Sin1000(x + 30000, 81681)) \div 1000
  + (4800 * Sin1000(x + 80000, 34558)) \div 1000
  + (2400 * Sin1000(x - 120000, 17279)) \div 1000

----------------------------------------------------------------------------
(* Obstacles.                                                               *)

Obstacle(kind, x) ==
  [kind |-> kind, x |-> x, y |-> terrain_y(x),
   size |-> IF kind = "rock" THEN 2800 ELSE IF kind = "log" THEN 4000 ELSE 8000]

collides(ob, px, py) ==
  IF ob.kind = "rock"
  THEN LET dx == px - ob.x
           dy == (py - 2000) - (ob.y - 2000)
       IN  /\ Abs(dx) < 2400
           /\ Abs(dy) < 2400
           /\ dx * dx + dy * dy < 2400 * 2400
  ELSE IF ob.kind = "log"
  THEN /\ ob.x - 2800 <= px /\ px <= ob.x + 2600
       /\ ob.y - 2200 <= py /\ py <= ob.y - 200
  ELSE /\ ob.x - 1000 <= px /\ px <= ob.x + 10000
       /\ py >= ob.y - 6400 /\ py <= ob.y

\* a generator that leaves an extra 200 units behind every obstacle
RECURSIVE GenerateFrom_padded(_, _, _)
GenerateFrom_padded(x, length, gaps) ==
  IF x < length - 20000
  THEN UNION { { <<Obstacle(k, x + g)>> \o rest :
                 rest \in GenerateFrom_padded(x + g + 20000, length, gaps) }
               : g \in gaps, k \in Kinds }
  ELSE { << >> }

\* ObstacleField._generate: the fields the loop can produce from cursor x
RECURSIVE GenerateFrom(_, _, _)
GenerateFrom(x, length, gaps) ==
  IF x < length - 20000
  THEN UNION { { <<Obstacle(k, x + g)>> \o rest : rest \in GenerateFrom(x + g, length, gaps) }
               : g \in gaps, k \in Kinds }
  ELSE { << >> }

\* ObstacleField(length).items, the gaps drawn from the set gaps
ObstacleField(length, gaps) == GenerateFrom(40000, length, gaps)

----------------------------------------------------------------------------
(* Bike.                                                                    *)

\* Bike.__init__ up to the call of reset(): the fields reset() does not set
Bike(name, is_bot) ==
  [name |-> name, is_bot |-> is_bot, x |-> 0, y |-> 0, vx |-> 0, vy |-> 0,
   on_ground |-> TRUE, finished |-> FALSE, finish_time_ms |-> None,
   speed_bias |-> None, jump_bias |-> None]

\* reset that leaves vy and on_ground as they were
reset_keeping_flight(b, sb, jb) ==
  [b EXCEPT !.x = 4000,
            !.y = terrain_y(4000) - 3000,
            !.vx = 0,
            !.finished = FALSE,
            !.finish_time_ms = None,
            !.speed_bias = IF b.is_bot THEN sb ELSE @,
            !.jump_bias = IF b.is_bot THEN jb ELSE @]

\* Bike.reset: sb and jb are the two random.uniform draws of a bot
reset(b, sb, jb) ==
  [b EXCEPT !.x = 4000,
            !.y = terrain_y(4000) - 3000,
            !.vx = 0,
            !.vy = 0,
            !.on_ground = TRUE,
            !.finished = FALSE,
            !.finish_time_ms = None,
            !.speed_bias = IF b.is_bot THEN sb ELSE @,
            !.jump_bias = IF b.is_bot THEN jb ELSE @]

\* a vehicle in the air that falls through the ground without landing
update_physics_no_landing(b, throttle, brake, want_jump) ==
  IF b.finished THEN b
  ELSE
    LET vx1 == IF throttle THEN b.vx + ACCEL ELSE b.vx
        vx2 == IF brake THEN vx1 - BRAKE ELSE vx1
        vx3 == IF ~throttle /\ ~brake THEN (vx2 * (100 - FRICTION)) \div 100 ELSE vx2
        vx  == clamp(vx3, 0, MAX_SPEED)
        ground == terrain_y(b.x)
        fall_vy == b.vy + GRAVITY
        fall_y  == b.y + fall_vy
        y  == IF b.on_ground THEN ground - 3000 ELSE fall_y
        vy == IF b.on_ground
              THEN (IF want_jump THEN 0 - JUMP_VY ELSE b.vy)
              ELSE fall_vy
        og == b.on_ground /\ ~want_jump
        x  == b.x + vx
    IN  [b EXCEPT !.vx = vx, !.y = y, !.vy = vy, !.on_ground = og, !.x = x,
                  !.finished = (x >= TRACK_LEN)]

\* a vehicle that keeps moving after it has finished
update_physics_unfrozen(b, throttle, brake, want_jump) ==
  LET vx1 == IF throttle THEN b.vx + ACCEL ELSE b.vx
      vx2 == IF brake THEN vx1 - BRAKE ELSE vx1
      vx3 == IF ~throttle /\ ~brake THEN (vx2 * (100 - FRICTION)) \div 100 ELSE vx2
      vx  == clamp(vx3, 0, MAX_SPEED)
      ground == terrain_y(b.x)
      fall_vy == b.vy + GRAVITY
      fall_y  == b.y + fall_vy
      lands   == fall_y >= ground - 3000
      y  == IF b.on_ground \/ lands THEN ground - 3000 ELSE fall_y
      vy == IF b.on_ground
            THEN (IF want_jump THEN 0 - JUMP_VY ELSE b.vy)
            ELSE (IF lands THEN 0 ELSE fall_vy)
      og == IF b.on_ground THEN ~want_jump ELSE lands
      x  == b.x + vx
  IN  [b EXCEPT !.vx = vx, !.y = y, !.vy = vy, !.on_ground = og, !.x = x,
                !.finished = (x >= TRACK_LEN)]

\* a finish line that is noticed 20 units late
update_physics_late_finish(b, throttle, brake, want_jump) ==
  IF b.finished THEN b
  ELSE
    LET vx1 == IF throttle THEN b.vx + ACCEL ELSE b.vx
        vx2 == IF brake THEN vx1 - BRAKE ELSE vx1
        vx3 == IF ~throttle /\ ~brake THEN (vx2 * (100 - FRICTION)) \div 100 ELSE vx2
        vx  == clamp(vx3, 0, MAX_SPEED)
        ground == terrain_y(b.x)
        fall_vy == b.vy + GRAVITY
        fall_y  == b.y + fall_vy
        lands   == fall_y >= ground - 3000
        y  == IF b.on_ground \/ lands THEN ground - 3000 ELSE fall_y
        vy == IF b.on_ground
              THEN (IF want_jump THEN 0 - JUMP_VY ELSE b.vy)
              ELSE (IF lands THEN 0 ELSE fall_vy)
        og == IF b.on_ground THEN ~want_jump ELSE lands
        x  == b.x + vx
    IN  [b EXCEPT !.vx = vx, !.y = y, !.vy = vy, !.on_ground = og, !.x = x,
                  !.finished = (x >= TRACK_LEN + 2000)]

update_physics(b, throttle, brake, want_jump) ==
  IF b.finished THEN b
  ELSE
    LET vx1 == IF throttle THEN b.vx + ACCEL ELSE b.vx
        vx2 == IF brake THEN vx1 - BRAKE ELSE vx1
        vx3 == IF ~throttle /\ ~brake THEN (vx2 * (100 - FRICTION)) \div 100 ELSE vx2
        vx  == clamp(vx3, 0, MAX_SPEED)
        ground == terrain_y(b.x)
        fall_vy == b.vy + GRAVITY
        fall_y  == b.y + fall_vy
        lands   == fall_y >= ground - 3000
        y  == IF b.on_ground \/ lands THEN ground - 3000 ELSE fall_y
        vy == IF b.on_ground
              THEN (IF want_jump THEN 0 - JUMP_VY ELSE b.vy)
              ELSE (IF lands THEN 0 ELSE fall_vy)
        og == IF b.on_ground THEN ~want_jump ELSE lands
        x  == b.x + vx
    IN  [b EXCEPT !.vx = vx, !.y = y, !.vy = vy, !.on_ground = og, !.x = x,
                  !.finished = (x >= TRACK_LEN)]

\* the obstacle effects without min(MAX_SPEED, .) on the ramp boost
obstacle_effect_unbounded(b, ob) ==
  IF Abs(ob.x - b.x) > 8000 THEN b
  ELSE IF ~collides(ob, b.x, b.y + 2800) THEN b
  ELSE IF ~b.on_ground THEN b
  ELSE IF ob.kind = "ramp"
  THEN [b EXCEPT !.on_ground = FALSE,
                 !.vy = 0 - ((JUMP_VY * 11) \div 10),
                 !.vx = b.vx + 100]
  ELSE [b EXCEPT !.vx = Max(0, b.vx - 220),
                 !.y = b.y - 600,
                 !.on_ground = FALSE,
                 !.vy = 0 - 500]

\* a bump that lifts the vehicle but takes no speed
obstacle_effect_no_penalty(b, ob) ==
  IF Abs(ob.x - b.x) > 8000 THEN b
  ELSE IF ~collides(ob, b.x, b.y + 2800) THEN b
  ELSE IF ~b.on_ground THEN b
  ELSE IF ob.kind = "ramp"
  THEN [b EXCEPT !.on_ground = FALSE,
                 !.vy = 0 - ((JUMP_VY * 11) \div 10),
                 !.vx = Min(MAX_SPEED, b.vx + 100)]
  ELSE [b EXCEPT !.y = b.y - 600,
                 !.on_ground = FALSE,
                 !.vy = 0 - 500]

\* a bump that stops the vehicle and throws it back in front of the obstacle
obstacle_effect_knock_back(b, ob) ==
  IF Abs(ob.x - b.x) > 8000 THEN b
  ELSE IF ~collides(ob, b.x, b.y + 2800) THEN b
  ELSE IF ~b.on_ground THEN b
  ELSE IF ob.kind = "ramp"
  THEN [b EXCEPT !.on_ground = FALSE,
                 !.vy = 0 - ((JUMP_VY * 11) \div 10),
                 !.vx = Min(MAX_SPEED, b.vx + 100)]
  ELSE [b EXCEPT !.vx = 0,
                 !.x = ob.x - 3000,
                 !.y = b.y - 600,
                 !.on_ground = FALSE,
                 !.vy = 0 - 500]

\* the body of the loop of apply_obstacle_effects for one obstacle
obstacle_effect(b, ob) ==
  IF Abs(ob.x - b.x) > 8000 THEN b
  ELSE IF ~collides(ob, b.x, b.y + 2800) THEN b
  ELSE IF ~b.on_ground THEN b
  ELSE IF ob.kind = "ramp"
  THEN [b EXCEPT !.on_ground = FALSE,
                 !.vy = 0 - ((JUMP_VY * 11) \div 10),
                 !.vx = Min(MAX_SPEED, b.vx + 100)]
  ELSE [b EXCEPT !.vx = Max(0, b.vx - 220),
                 !.y = b.y - 600,
                 !.on_ground = FALSE,
                 !.vy = 0 - 500]

RECURSIVE effects_from(_, _, _)
effects_from(b, obstacles, i) ==
  IF i > Len(obstacles) THEN b
  ELSE effects_from(obstacle_effect(b, obstacles[i]), obstacles, i + 1)

apply_obstacle_effects(b, obstacles) ==
  IF b.finished THEN b ELSE effects_from(b, obstacles, 1)

\* a bot that jumps at a rock or a log as early as at a ramp
RECURSIVE need_jump_from_no_proximity(_, _, _, _)
need_jump_from_no_proximity(b, items, i, r) ==
  IF i > Len(items) THEN FALSE
  ELSE LET ob == items[i]
           ahead_x == b.x + 9000 + b.vx * 2
       IN  IF ob.x < b.x THEN need_jump_from_no_proximity(b, items, i + 1, r)
           ELSE IF ob.x > ahead_x THEN FALSE
           ELSE r

\* the loop of bot_decide from item i on: the value of need_jump.
\* r is the outcome of the comparison random.random() < bias.
RECURSIVE need_jump_from(_, _, _, _)
need_jump_from(b, items, i, r) ==
  IF i > Len(items) THEN FALSE
  ELSE LET ob == items[i]
           ahead_x == b.x + 9000 + b.vx * 2
       IN  IF ob.x < b.x THEN need_jump_from(b, items, i + 1, r)
           ELSE IF ob.x > ahead_x THEN FALSE
           ELSE IF ob.kind = "ramp" THEN r
           ELSE IF 10 * (ob.x - b.x) < 60000 + b.vx * 12 THEN r
           ELSE need_jump_from(b, items, i + 1, r)

\* a bot that never opens the throttle and never jumps
bot_decide_idle(b, items, r) == << FALSE, FALSE >>

\* << throttle, jump >>
bot_decide(b, items, r) ==
  IF ~b.is_bot \/ b.finished THEN << FALSE, FALSE >>
  ELSE << b.vx * 100 < b.speed_bias * MAX_SPEED, need_jump_from(b, items, 1, r) >>

\* a bot after its update_physics call in _step, line 969, before the obstacles
bot_move(b, items, r) ==
  LET d == bot_decide(b, items, r)
  IN  update_physics(b, d[1], FALSE, d[2])

\* one bot's part of the loop over self.bots in _step
bot_tick(b, items, r) ==
  LET d == bot_decide(b, items, r)
  IN  apply_obstacle_effects(update_physics(b, d[1], FALSE, d[2]), items)

----------------------------------------------------------------------------
(* Game: construction.                                                      *)

\* start_race, lines 822-823: the stripped value of the name field
NameInputs == {""}

PlayerName(nm) == IF nm = "" THEN "Player" ELSE nm

\* Bike(f"Bot {i+1}", ...) for i = 0 .. BOT_COUNT - 1, line 849
BotName(i) == "Bot " \o ToString(i)

\* _load_best: localStorage holds no best time
BestLoads == {None}

\* Overlays before the first show_results: nothing shown
NoResults == [rows |-> << >>, player_place |-> 0, player_won |-> FALSE]

\* Game.__init__ (lines 596-642) and its first _loop
Init ==
  /\ state = "home"
  /\ paused = FALSE
  /\ pc = "idle"
  /\ obs_field \in ObstacleField(TRACK_LEN, RaceGaps)
  /\ player = reset(Bike("Player", FALSE), None, None)
  /\ bots = << >>
  /\ throttle_down = FALSE
  /\ brake_down = FALSE
  /\ jump_down = FALSE
  /\ engine_on = FALSE
  /\ countdown_start_ms = None
  /\ race_start_ms = None
  /\ finish_announced = FALSE
  /\ best_time_ms \in BestLoads
  /\ camera_x = 0
  /\ last_t = 0
  /\ hud_ms = 0
  /\ sim_ms = 0
  /\ races = 0
  /\ obs_gen = 0
  /\ idle = 0
  /\ inputs = 0
  /\ shown = NoResults
  /\ stored_best = best_time_ms
  /\ race_saves = 0
  /\ mid = << >>
  /\ hit_x = << >>
  /\ center = ""
  /\ cues = << >>
  /\ beeps = << >>
  /\ btn_throttle_active = throttle_down
  /\ btn_brake_active = brake_down
  /\ decided = << >>

----------------------------------------------------------------------------
(* Game: the frame loop.                                                    *)

\* stamping without the test finish_time_ms is None
stamp_finish_every_tick(b, tnow, start_ms) ==
  IF start_ms # None /\ b.finished
  THEN [b EXCEPT !.finish_time_ms = tnow - start_ms]
  ELSE b

\* _check_finish_state, lines 990-995: stamp one vehicle at clock reading tnow
stamp_finish(b, tnow, start_ms) ==
  IF start_ms # None /\ b.finished /\ b.finish_time_ms = None
  THEN [b EXCEPT !.finish_time_ms = tnow - start_ms]
  ELSE b

\* _all_finished without the loop over the bots
all_finished_player_only(p, bs) == p.finished

\* _all_finished
all_finished(p, bs) == p.finished /\ \A i \in 1..Len(bs) : bs[i].finished

\* _show_results, lines 1022-1025: the best time after the player's finish
new_best(best, ft) ==
  IF ft # None /\ (best = None \/ ft < best) THEN ft ELSE best

\* saving whenever the player has a finish time
saves_always(best, ft) == ft # None

\* _show_results, lines 1022-1023: _save_best is called with the player's time
saves_best(best, ft) == ft # None /\ (best = None \/ ft < best)

\* _gather_results, lines 1053-1056 and 1059: the time of a row
row_time(b) == IF b.finish_time_ms = None THEN 9999999 ELSE b.finish_time_ms

\* a sort that puts a row in front of the rows of equal time
insert_row_before_ties(sorted, r) ==
  LET n == Cardinality({ i \in 1..Len(sorted) : sorted[i].ms < r.ms })
  IN  SubSeq(sorted, 1, n) \o << r >> \o SubSeq(sorted, n + 1, Len(sorted))

\* list.sort(key = time) is stable: a row goes behind every row already in the
\* list whose time is not larger
insert_row(sorted, r) ==
  LET n == Cardinality({ i \in 1..Len(sorted) : sorted[i].ms <= r.ms })
  IN  SubSeq(sorted, 1, n) \o << r >> \o SubSeq(sorted, n + 1, Len(sorted))

RECURSIVE sort_rows(_, _)
sort_rows(res, n) ==
  IF n = 0 THEN << >> ELSE insert_row(sort_rows(res, n - 1), res[n])

\* _gather_results
gather_results(p, bs) ==
  LET res == << [name |-> p.name, ms |-> row_time(p)] >>
             \o [i \in 1..Len(bs) |-> [name |-> bs[i].name, ms |-> row_time(bs[i])]]
  IN  sort_rows(res, Len(res))

\* [n for n, _ in rows].index(name), line 1018: first position of the name
index_of(rows, name) ==
  CHOOSE i \in 1..Len(rows) :
    rows[i].name = name /\ \A j \in 1..(i - 1) : rows[j].name # name

\* _show_results, lines 1017-1019 and 1029: what ui.show_results is handed
show_results(p, bs) ==
  LET rows == gather_results(p, bs)
      place == index_of(rows, p.name)
  IN  [rows |-> rows, player_place |-> place, player_won |-> (place = 1)]

\* _update_camera
update_camera(cam, px) ==
  LET target == clamp(px - (VPW * 4) \div 10, 0, TRACK_LEN - (VPW * 2) \div 10)
  IN  cam + ((target - cam) * CAM_EASE) \div 100

\* _loop, lines 1099-1104: the elapsed time shown by the HUD
hud_elapsed(st, t, start_ms) ==
  IF st \in {"countdown", "running"}
  THEN (IF start_ms = None THEN 0 ELSE Max(0, t - start_ms))
  ELSE 0

\* _step, lines 934-953: the countdown started at cs has elapsed at clock reading t
countdown_over(t, cs) == COUNTDOWN_MS - (t - cs) <= 0

\* the physics running from the first countdown frame on
ticks_in_countdown(pf, st, over) ==
  /\ ~pf
  /\ st \in {"running", "countdown"}

\* _loop line 1087 and _step lines 928-956: this frame runs the physics.
\* pf is Game.paused, st the state, over whether the countdown has elapsed
ticks(pf, st, over) ==
  /\ ~pf
  /\ st # "home"
  /\ st = "running" \/ (st = "countdown" /\ over)

\* _step, lines 936-953: the centre text of a countdown frame with this much
\* of the countdown remaining ("" once _start_running has run)
countdown_text(remaining) ==
  IF remaining > 800 THEN "3"
  ELSE IF remaining > 1600 - 800 THEN "2"
  ELSE IF remaining > 800 - 800 THEN "1"
  ELSE IF remaining > 0 THEN "GO!"
  ELSE ""

\* _step, lines 936-953: the countdown beeps of a countdown frame, as the
\* sequence of the arguments of SOUND.countdown_beep
countdown_beeps(elapsed, remaining) ==
  IF remaining > 800 THEN << >>
  ELSE IF remaining > 1600 - 800
  THEN (IF 1600 <= elapsed /\ elapsed < 1700 THEN << FALSE >> ELSE << >>)
  ELSE IF remaining > 800 - 800
  THEN (IF 2400 <= elapsed /\ elapsed < 2500 THEN << FALSE >> ELSE << >>)
  ELSE IF remaining > 0
  THEN (IF 3200 <= elapsed /\ elapsed < 3400 THEN << TRUE >> ELSE << >>)
  ELSE << >>

\* a throttle that works with the engine off
throttle_ungated(td, eo) == td

\* _step, line 958: throttle = self.throttle_down and self.engine_on
throttle_intent(td, eo) == td /\ eo

\* a jump intent that stays set after the tick
keep_intent(jd) == jd

\* _step, line 961: the jump intent after a tick has read it
one_shot(jd) == FALSE

\* _loop at clock reading t, with _step inlined; draws[i] is bot i's random outcome
Loop(t, draws) ==
  LET dt       == t - last_t
      starting == state = "countdown" /\ countdown_over(t, countdown_start_ms)
      ticking  == ticks(paused, state, starting)
      started  == ticking /\ state = "countdown"
      start_ms == IF started THEN t ELSE race_start_ms
      counting == ~paused /\ state = "countdown"
      elapsed  == t - countdown_start_ms
      text     == countdown_text(COUNTDOWN_MS - elapsed)
      throttle == throttle_intent(throttle_down, engine_on)
      pu == update_physics(player, throttle, brake_down, jump_down)
      bu == [i \in 1..Len(bots) |-> bot_move(bots[i], obs_field, draws[i])]
      p1 == apply_obstacle_effects(pu, obs_field)
      b1 == [i \in 1..Len(bots) |-> bot_tick(bots[i], obs_field, draws[i])]
      m1 == << pu >> \o bu
      v1 == << p1 >> \o b1
      p2 == stamp_finish(p1, t, start_ms)
      b2 == [i \in 1..Len(bots) |-> stamp_finish(b1[i], t, start_ms)]
      show == start_ms # None /\ all_finished(p2, b2) /\ ~finish_announced
      saving == show /\ saves_best(best_time_ms, p2.finish_time_ms)
      st2 == IF ticking
             THEN (IF show THEN "results" ELSE "running")
             ELSE state
  IN  /\ last_t' = t
      /\ state' = st2
      /\ race_start_ms' = start_ms
      /\ IF ticking
         THEN /\ jump_down' = one_shot(jump_down)
              /\ player' = p2
              /\ bots' = b2
              /\ finish_announced' = (finish_announced \/ show)
              /\ best_time_ms' = IF show THEN new_best(best_time_ms, p2.finish_time_ms)
                                 ELSE best_time_ms
              /\ camera_x' = update_camera(camera_x, p2.x)
              /\ sim_ms' = IF started THEN 0 ELSE sim_ms + dt
              /\ shown' = IF show THEN show_results(p2, b2) ELSE shown
              /\ stored_best' = IF saving THEN p2.finish_time_ms ELSE stored_best
              /\ race_saves' = IF saving THEN race_saves + 1 ELSE race_saves
              /\ mid' = m1
              /\ hit_x' = [k \in 1..Len(m1) |->
                             IF v1[k] # m1[k] THEN v1[k].x ELSE hit_x[k]]
              /\ decided' = [i \in 1..Len(bots) |->
                               bot_decide(bots[i], obs_field, draws[i])]
         ELSE UNCHANGED << jump_down, player, bots, finish_announced, best_time_ms,
                           camera_x, sim_ms, shown, stored_best, race_saves, mid,
                           hit_x, decided >>
      /\ IF counting
         THEN /\ center' = text
              /\ cues' = IF text = "" \/ (cues # << >> /\ cues[Len(cues)] = text)
                         THEN cues ELSE Append(cues, text)
              /\ beeps' = beeps \o countdown_beeps(elapsed, COUNTDOWN_MS - elapsed)
         ELSE UNCHANGED << center, cues, beeps >>
      /\ hud_ms' = hud_elapsed(st2, t, start_ms)
      /\ idle' = IF ~paused /\ state \in {"countdown", "running"} THEN 0 ELSE idle + 1
      /\ UNCHANGED << paused, pc, obs_field, throttle_down, brake_down, engine_on,
                      countdown_start_ms, races, obs_gen, inputs,
                      btn_throttle_active, btn_brake_active >>

\* a frame that runs the countdown or the physics
Active == ~paused /\ state \in {"countdown", "running"}

\* window.requestAnimationFrame(self._loop): the next frame
Frame ==
  /\ pc = "idle"
  /\ IF Active THEN state = "running" => sim_ms < MaxRaceMs ELSE idle < MaxIdle
  /\ \E draws \in [1..BOT_COUNT -> BOOLEAN] : Loop(last_t + FrameMs, draws)

----------------------------------------------------------------------------
(* Game: external events.  Each handler runs between two frames.            *)

\* the moments at which an external event arrives: right after a race setup,
\* on every InputPeriod-th tick of a race, and after MaxIdle frames without a step
CanInput ==
  /\ pc = "idle"
  /\ inputs < MaxInputs
  /\ state = "countdown" => last_t = countdown_start_ms
  /\ state = "running" => sim_ms % (InputPeriod * FrameMs) = 0
  /\ state \in {"home", "paused", "results"} => idle = MaxIdle

\* to_start_state, lines 837-862; sb[i], jb[i] are the draws of bot i's reset
to_start_state(p, sb, jb) ==
  /\ player' = reset(p, None, None)
  /\ bots' = [i \in 1..BOT_COUNT |-> reset(Bike(BotName(i), TRUE), sb[i], jb[i])]
  /\ finish_announced' = FALSE
  /\ race_start_ms' = None
  /\ countdown_start_ms' = None
  /\ camera_x' = 0
  /\ state' = "countdown"
  /\ paused' = FALSE
  /\ center' = ""
  /\ cues' = << >>

\* start_race up to and including to_start_state(), lines 820-832
StartRace ==
  /\ CanInput
  /\ races < MaxRaces
  /\ \E nm \in NameInputs, sb \in [1..BOT_COUNT -> SpeedBiases],
        jb \in [1..BOT_COUNT -> JumpBiases] :
       to_start_state([player EXCEPT !.name = PlayerName(nm)], sb, jb)
  /\ pc' = "begin_countdown"
  /\ races' = races + 1
  /\ sim_ms' = 0
  /\ idle' = 0
  /\ inputs' = inputs + 1
  /\ UNCHANGED << obs_field, throttle_down, brake_down, jump_down, engine_on,
                  best_time_ms, last_t, hud_ms, obs_gen >>
  /\ race_saves' = 0
  /\ mid' = << >>
  /\ hit_x' = [k \in 1..(1 + BOT_COUNT) |-> None]
  /\ UNCHANGED << shown, stored_best >>
  /\ UNCHANGED << beeps, btn_throttle_active, btn_brake_active, decided >>

\* restart up to and including to_start_state(), lines 883-885
Restart ==
  /\ CanInput
  /\ races < MaxRaces
  /\ \E sb \in [1..BOT_COUNT -> SpeedBiases], jb \in [1..BOT_COUNT -> JumpBiases] :
       to_start_state(player, sb, jb)
  /\ pc' = "begin_countdown"
  /\ races' = races + 1
  /\ sim_ms' = 0
  /\ idle' = 0
  /\ inputs' = inputs + 1
  /\ UNCHANGED << obs_field, throttle_down, brake_down, jump_down, engine_on,
                  best_time_ms, last_t, hud_ms, obs_gen >>
  /\ race_saves' = 0
  /\ mid' = << >>
  /\ hit_x' = [k \in 1..(1 + BOT_COUNT) |-> None]
  /\ UNCHANGED << shown, stored_best >>
  /\ UNCHANGED << beeps, btn_throttle_active, btn_brake_active, decided >>

\* _begin_countdown, the rest of start_race and restart; now_ms() reads last_t
BeginCountdown ==
  /\ pc = "begin_countdown"
  /\ countdown_start_ms' = last_t
  /\ pc' = "idle"
  /\ UNCHANGED << state, paused, obs_field, player, bots, throttle_down, brake_down,
                  jump_down, engine_on, race_start_ms, finish_announced,
                  best_time_ms, camera_x, last_t, hud_ms, sim_ms, races, obs_gen,
                  idle, inputs >>
  /\ UNCHANGED << shown, stored_best, race_saves, mid, hit_x >>
  /\ beeps' = << FALSE >>
  /\ UNCHANGED << center, cues, btn_throttle_active, btn_brake_active, decided >>

\* an exit that leaves the paused flag as it is
ToHome_keeping_pause ==
  /\ CanInput
  /\ state' = "home"
  /\ idle' = IF state = "home" THEN idle ELSE 0
  /\ inputs' = IF state = "home" THEN inputs ELSE inputs + 1
  /\ UNCHANGED << paused, pc, obs_field, player, bots, throttle_down, brake_down, jump_down,
                  engine_on, countdown_start_ms, race_start_ms, finish_announced,
                  best_time_ms, camera_x, last_t, hud_ms, sim_ms, races, obs_gen >>
  /\ UNCHANGED << shown, stored_best, race_saves, mid, hit_x >>
  /\ UNCHANGED << center, cues, beeps, btn_throttle_active, btn_brake_active, decided >>

\* to_home
ToHome ==
  /\ CanInput
  /\ state' = "home"
  /\ paused' = FALSE
  /\ idle' = IF state = "home" THEN idle ELSE 0
  /\ inputs' = IF state = "home" THEN inputs ELSE inputs + 1
  /\ UNCHANGED << pc, obs_field, player, bots, throttle_down, brake_down, jump_down,
                  engine_on, countdown_start_ms, race_start_ms, finish_announced,
                  best_time_ms, camera_x, last_t, hud_ms, sim_ms, races, obs_gen >>
  /\ UNCHANGED << shown, stored_best, race_saves, mid, hit_x >>
  /\ UNCHANGED << center, cues, beeps, btn_throttle_active, btn_brake_active, decided >>

\* toggle_pause; the Resume button calls it directly, _on_pause("up") in
\* the states running and paused
TogglePause ==
  /\ CanInput
  /\ IF state = "running"
     THEN state' = "paused" /\ paused' = TRUE /\ inputs' = inputs + 1 /\ idle' = 0
     ELSE IF state = "paused"
     THEN state' = "running" /\ paused' = FALSE /\ inputs' = inputs + 1 /\ idle' = 0
     ELSE UNCHANGED << state, paused, inputs, idle >>
  /\ UNCHANGED << pc, obs_field, player, bots, throttle_down, brake_down, jump_down,
                  engine_on, countdown_start_ms, race_start_ms, finish_announced,
                  best_time_ms, camera_x, last_t, hud_ms, sim_ms, races, obs_gen >>
  /\ UNCHANGED << shown, stored_best, race_saves, mid, hit_x >>
  /\ UNCHANGED << center, cues, beeps, btn_throttle_active, btn_brake_active, decided >>

\* _on_engine("up")
OnEngine ==
  /\ CanInput
  /\ IF state \in {"countdown", "running", "paused"}
     THEN engine_on' = ~engine_on /\ inputs' = inputs + 1
     ELSE UNCHANGED << engine_on, inputs >>
  /\ UNCHANGED << state, paused, pc, obs_field, player, bots, throttle_down,
                  brake_down, jump_down, countdown_start_ms, race_start_ms,
                  finish_announced, best_time_ms, camera_x, last_t, hud_ms, sim_ms,
                  races, obs_gen, idle >>
  /\ UNCHANGED << shown, stored_best, race_saves, mid, hit_x >>
  /\ UNCHANGED << center, cues, beeps, btn_throttle_active, btn_brake_active, decided >>

\* Button.down / Button.up of a held-input button: << active, flag >> afterwards.
\* up calls the handler only if the button was active; the handler (_on_throttle,
\* _on_brake) returns at once unless the state is running
press(phase, active, flag, st) ==
  LET called == phase = "down" \/ active
  IN  << phase = "down",
         IF called /\ st = "running" THEN phase = "down" ELSE flag >>

\* pointerdown / pointerup on btn_throttle: Button.down / Button.up, _on_throttle
OnThrottle(phase) ==
  /\ CanInput
  /\ LET after == press(phase, btn_throttle_active, throttle_down, state)
     IN  /\ btn_throttle_active' = after[1]
         /\ throttle_down' = after[2]
         /\ inputs' = IF after = << btn_throttle_active, throttle_down >>
                       THEN inputs ELSE inputs + 1
  /\ UNCHANGED << state, paused, pc, obs_field, player, bots, brake_down, jump_down,
                  engine_on, countdown_start_ms, race_start_ms, finish_announced,
                  best_time_ms, camera_x, last_t, hud_ms, sim_ms, races, obs_gen,
                  idle >>
  /\ UNCHANGED << shown, stored_best, race_saves, mid, hit_x >>
  /\ UNCHANGED << center, cues, beeps, btn_brake_active, decided >>

\* pointerdown / pointerup on btn_brake: Button.down / Button.up, _on_brake
OnBrake(phase) ==
  /\ CanInput
  /\ LET after == press(phase, btn_brake_active, brake_down, state)
     IN  /\ btn_brake_active' = after[1]
         /\ brake_down' = after[2]
         /\ inputs' = IF after = << btn_brake_active, brake_down >>
                       THEN inputs ELSE inputs + 1
  /\ UNCHANGED << state, paused, pc, obs_field, player, bots, throttle_down,
                  jump_down, engine_on, countdown_start_ms, race_start_ms,
                  finish_announced, best_time_ms, camera_x, last_t, hud_ms, sim_ms,
                  races, obs_gen, idle >>
  /\ UNCHANGED << shown, stored_best, race_saves, mid, hit_x >>
  /\ UNCHANGED << center, cues, beeps, btn_throttle_active, decided >>

\* _on_jump("down")
OnJump ==
  /\ CanInput
  /\ IF state # "running"
     THEN UNCHANGED << jump_down, inputs >>
     ELSE /\ jump_down' = TRUE
          /\ inputs' = IF jump_down THEN inputs ELSE inputs + 1
  /\ UNCHANGED << state, paused, pc, obs_field, player, bots, throttle_down,
                  brake_down, engine_on, countdown_start_ms, race_start_ms,
                  finish_announced, best_time_ms, camera_x, last_t, hud_ms, sim_ms,
                  races, obs_gen, idle >>
  /\ UNCHANGED << shown, stored_best, race_saves, mid, hit_x >>
  /\ UNCHANGED << center, cues, beeps, btn_throttle_active, btn_brake_active, decided >>

Next ==
  \/ Frame
  \/ StartRace
  \/ Restart
  \/ BeginCountdown
  \/ ToHome
  \/ TogglePause
  \/ OnEngine
  \/ OnThrottle("down")
  \/ OnThrottle("up")
  \/ OnBrake("down")
  \/ OnBrake("up")
  \/ OnJump

Spec == Init /\ [][Next]_vars

----------------------------------------------------------------------------
(* Mid-race states.  The source's track is 4000 units long, so a vehicle    *)
(* reaches MAX_SPEED (after 88 throttled ticks, near x = 1019) long before  *)
(* the finish.  On the shortened track of the model no race gets that far,  *)
(* so SpecTick starts the frame loop from the states the start of a running *)
(* tick can be in: a vehicle slow or at full speed, on the ground or in the *)
(* air, just before the first obstacle.                                     *)

MidRaceXs == {66000, 67950, 70000}
PlayerSpeeds == {0, 100, 2190, MAX_SPEED}
BotSpeeds == {100, 1300}

\* a Bike at x with speed vx as update_physics leaves it: on the ground its y
\* was taken from the terrain at the position before the move (lines 361-379)
MidRaceBike(name, is_bot, x, vx, air, sb, jb) ==
  [name |-> name, is_bot |-> is_bot, x |-> x,
   y |-> terrain_y(x - vx) - 3000 - (IF air THEN 4000 ELSE 0),
   vx |-> vx, vy |-> IF air THEN 0 - 500 ELSE 0,
   on_ground |-> ~air, finished |-> FALSE, finish_time_ms |-> None,
   speed_bias |-> sb, jump_bias |-> jb]

\* the start of a running tick, TickDepth ticks before the frames stop
InitTick ==
  /\ state = "running"
  /\ paused = FALSE
  /\ pc = "idle"
  /\ obs_field \in ObstacleField(TRACK_LEN, RaceGaps)
  /\ \E x \in MidRaceXs, vx \in PlayerSpeeds, air \in BOOLEAN :
       player = MidRaceBike("Player", FALSE, x, vx, air, None, None)
  /\ \E x \in [1..BOT_COUNT -> MidRaceXs], vx \in [1..BOT_COUNT -> BotSpeeds],
        air \in [1..BOT_COUNT -> BOOLEAN], sb \in [1..BOT_COUNT -> SpeedBiases],
        jb \in [1..BOT_COUNT -> JumpBiases] :
       bots = [i \in 1..BOT_COUNT |->
                 MidRaceBike(BotName(i), TRUE, x[i], vx[i], air[i], sb[i], jb[i])]
  /\ throttle_down \in BOOLEAN
  /\ brake_down \in BOOLEAN
  /\ jump_down \in BOOLEAN
  /\ engine_on \in BOOLEAN
  /\ countdown_start_ms = 0
  /\ race_start_ms = 4 * FrameMs
  /\ sim_ms = MaxRaceMs - TickDepth * FrameMs
  /\ last_t = race_start_ms + sim_ms
  /\ hud_ms = sim_ms
  /\ finish_announced = FALSE
  /\ best_time_ms = None
  /\ camera_x = 0
  /\ races = 1
  /\ obs_gen = 0
  /\ idle = 0
  /\ inputs = MaxInputs
  /\ shown = NoResults
  /\ stored_best = best_time_ms
  /\ race_saves = 0
  /\ mid = << >>
  /\ hit_x = [k \in 1..(1 + BOT_COUNT) |-> None]
  /\ center = ""
  /\ cues = << "3", "1" >>
  /\ beeps = << FALSE, FALSE >>
  /\ btn_throttle_active = throttle_down
  /\ btn_brake_active = brake_down
  /\ decided = << >>

SpecTick == InitTick /\ [][Frame]_vars

----------------------------------------------------------------------------
(* Claims.                                                                  *)

\* the fields of a Bike that a tick advances (Bike.reset, lines 334-341)
Phys(b) == << b.x, b.vx, b.y, b.vy, b.on_ground, b.finished, b.finish_time_ms >>

\* C1: a frame processed while the state is home, paused or results, or while
\* it is countdown and the countdown has not elapsed at that frame, leaves
\* position, speed, height, vertical velocity, grounded flag, finished flag and
\* finish time of the player and of every bot unchanged.
C1_VehiclesAdvanceOnlyWhileRunning ==
  [][ ( /\ last_t' # last_t
        /\ \/ state \in {"home", "paused", "results"}
           \/ state = "countdown" /\ ~countdown_over(last_t', countdown_start_ms) )
      => /\ Phys(player') = Phys(player)
         /\ Len(bots') = Len(bots)
         /\ \A i \in 1..Len(bots) : Phys(bots'[i]) = Phys(bots[i]) ]_vars

\* C1 witness: a frame has been processed while paused, with a bot in motion
C1_Witness ==
  /\ state = "paused"
  /\ idle >= 1
  /\ \E i \in 1..Len(bots) : bots[i].vx > 0 /\ ~bots[i].finished

\* C2: within one race (no setup in the step) a vehicle's finish_time_ms changes
\* only in the step in which finished turns from false to true, and then from
\* None to a value; finished never turns back; and finished holds exactly when
\* finish_time_ms is not None.
C2_FinishTimeAssignedOnce ==
  [][ races' = races =>
        \A k \in 0..Len(bots) :
          LET b == IF k = 0 THEN player ELSE bots[k]
              c == IF k = 0 THEN player' ELSE bots'[k]
          IN  /\ c.finish_time_ms # b.finish_time_ms
                 => ~b.finished /\ c.finished /\ b.finish_time_ms = None
              /\ b.finished => c.finished
              /\ ~b.finished /\ c.finished => c.finish_time_ms # None
              /\ c.finished <=> c.finish_time_ms # None ]_vars

\* C2 witness: a bot was stamped on an earlier tick and the race is still running
C2_Witness ==
  /\ state = "running"
  /\ \E i \in 1..Len(bots) :
       /\ bots[i].finished
       /\ bots[i].finish_time_ms # None
       /\ bots[i].finish_time_ms < hud_ms

\* C3: the elapsed race time handed to the HUD is the time accumulated over the
\* running ticks of the race: a frame while paused shows the value of the frame
\* before the pause, and the frames after unpausing continue from it.
C3_PauseFreezesElapsedTime ==
  [][ last_t' # last_t /\ state' \in {"running", "paused"} => hud_ms' = sim_ms' ]_vars

\* C4: the finish time stamped on a vehicle is the time accumulated over the
\* running ticks of the race up to the tick that finished it, whether or not
\* the race was paused in between.
C4_FinishTimeIsSimulatedTime ==
  [][ races' = races =>
        \A k \in 0..Len(bots) :
          LET b == IF k = 0 THEN player ELSE bots[k]
              c == IF k = 0 THEN player' ELSE bots'[k]
          IN  b.finish_time_ms = None /\ c.finish_time_ms # None
              => c.finish_time_ms = sim_ms' ]_vars

\* C5: the state becomes results in the tick of a running race in which the last
\* unfinished vehicle finishes and at no other time: in results every vehicle is
\* finished and stamped, results is entered only from running with a vehicle
\* still unfinished before the tick, and no tick ends with every vehicle
\* finished and the state still running.
C5_ResultsExactlyWhenAllFinished ==
  [][ /\ state' = "results"
         => /\ all_finished(player', bots')
            /\ player'.finish_time_ms # None
            /\ \A i \in 1..Len(bots') : bots'[i].finish_time_ms # None
      /\ state # "results" /\ state' = "results"
         => /\ state = "running"
            /\ last_t' # last_t
            /\ ~all_finished(player, bots)
      /\ last_t' # last_t /\ state' = "running"
         => ~all_finished(player', bots') ]_vars

\* C5 witness: results reached, the vehicles having finished on different ticks
C5_Witness ==
  /\ state = "results"
  /\ \E i \in 1..Len(bots) : bots[i].finish_time_ms # player.finish_time_ms

\* C6: every change of the state is one of home -> countdown, countdown ->
\* running, running -> paused, paused -> running, running -> results,
\* results -> countdown, results -> home; so a start, restart or exit event in
\* any other state leaves the state unchanged.
C6_OnlySpecifiedTransitions ==
  [][ state' # state =>
        << state, state' >> \in
          { << "home", "countdown" >>, << "countdown", "running" >>,
            << "running", "paused" >>, << "paused", "running" >>,
            << "running", "results" >>, << "results", "countdown" >>,
            << "results", "home" >> } ]_vars

\* C7: every race setup runs the obstacle generator: after a setup the field in
\* use is one generated at that setup.
C7_FieldRegeneratedAtSetup ==
  [][ races' # races => obs_gen' = races' ]_vars

\* the fields of a Bike other than a bot's two personality draws
Core(b) == << b.name, b.is_bot, b.x, b.y, b.vx, b.vy, b.on_ground, b.finished,
              b.finish_time_ms >>

\* the state to_start_state leaves behind (its step sets pc to begin_countdown)
SetupPost ==
  /\ state = "countdown"
  /\ ~paused
  /\ camera_x = 0
  /\ race_start_ms = None
  /\ countdown_start_ms = None
  /\ ~finish_announced
  /\ Len(bots) = BOT_COUNT
  /\ \A k \in 0..BOT_COUNT :
       LET b == IF k = 0 THEN player ELSE bots[k]
       IN  /\ b.x = 4000 /\ b.vx = 0 /\ b.vy = 0
           /\ b.on_ground /\ ~b.finished /\ b.finish_time_ms = None

\* a setup whose previous step was the end of another setup: no frame between
SecondSetup ==
  /\ pc' = "begin_countdown"
  /\ state = "countdown"
  /\ last_t = countdown_start_ms

\* C8 as stated: setup from any state leaves the stated vehicle, camera and timer
\* values, and a second setup with no tick in between leaves every field of
\* every vehicle, the bots' speed_bias and jump_bias included, as the first did.
C8_SetupIdempotent ==
  [][ /\ pc' = "begin_countdown" => SetupPost'
      /\ SecondSetup => player' = player /\ bots' = bots ]_vars

\* C8 amended: setup from any state leaves the stated vehicle, camera and timer
\* values, and a second setup with no tick in between leaves every field of
\* every vehicle as the first did, except each bot's speed_bias and jump_bias,
\* which the setup draws again.
C8_SetupIdempotentModuloBias ==
  [][ /\ pc' = "begin_countdown" => SetupPost'
      /\ SecondSetup
         => /\ Core(player') = Core(player)
            /\ player'.speed_bias = player.speed_bias
            /\ player'.jump_bias = player.jump_bias
            /\ \A i \in 1..BOT_COUNT :
                 /\ Core(bots'[i]) = Core(bots[i])
                 /\ bots'[i].speed_bias \in SpeedBiases
                 /\ bots'[i].jump_bias \in JumpBiases ]_vars

\* C8 witness: the second of two setups in a row, before its countdown begins
C8_Witness ==
  /\ pc = "begin_countdown"
  /\ races = 2
  /\ last_t = MaxIdle * FrameMs
  /\ SetupPost

\* C9: in a step without a race setup, no vehicle's position decreases.
C9_ForwardOnly ==
  [][ races' = races =>
        /\ player'.x >= player.x
        /\ \A i \in 1..Len(bots) : bots'[i].x >= bots[i].x ]_vars

\* C9 witness: a tick has run with the brake held on a player at rest
C9_Witness ==
  /\ state = "running"
  /\ brake_down
  /\ sim_ms > 0
  /\ player.vx = 0
  /\ \E i \in 1..Len(bots) : ~bots[i].on_ground /\ bots[i].x > 4000

\* C10: the speed of the player and of every bot is at least 0 and at most
\* MAX_SPEED, also right after a bump and right after a ramp boost.
C10_SpeedBound ==
  /\ 0 <= player.vx /\ player.vx <= MAX_SPEED
  /\ \A i \in 1..Len(bots) : 0 <= bots[i].vx /\ bots[i].vx <= MAX_SPEED

\* C10 witness: the player was launched by a ramp and left it at MAX_SPEED
C10_Witness ==
  /\ ~player.on_ground /\ player.vy = 0 - ((JUMP_VY * 11) \div 10)
  /\ player.vx = MAX_SPEED

\* C11: every vehicle whose grounded flag is true stands on the terrain at its
\* own position: on_ground implies y = terrain_y(x) - 30 for its current x.
C11_GroundedOnTerrain ==
  \A k \in 0..Len(bots) :
    LET b == IF k = 0 THEN player ELSE bots[k]
    IN  b.on_ground => b.y = terrain_y(b.x) - 3000

----------------------------------------------------------------------------
(* The last ticks of a race.  SpecFinish starts the frame loop with every   *)
(* vehicle within TickDepth ticks of the finish line, so that vehicles      *)
(* finish in the same tick or in different ticks, in either order, under a  *)
(* default or a typed player name and with or without a stored best time.   *)

FinishXs == {77000, 79000}
FinishSpeeds == {1300, MAX_SPEED}
FinishNames == {"", "Bot 1"}
FinishBests == {None, 1000, 71000}

InitFinish ==
  /\ state = "running"
  /\ paused = FALSE
  /\ pc = "idle"
  /\ obs_field \in ObstacleField(TRACK_LEN, RaceGaps)
  /\ \E nm \in FinishNames, x \in FinishXs, vx \in FinishSpeeds :
       player = MidRaceBike(PlayerName(nm), FALSE, x, vx, FALSE, None, None)
  /\ \E x \in [1..BOT_COUNT -> FinishXs], sb \in [1..BOT_COUNT -> SpeedBiases],
        jb \in [1..BOT_COUNT -> JumpBiases] :
       bots = [i \in 1..BOT_COUNT |->
                 MidRaceBike(BotName(i), TRUE, x[i], 1300, FALSE, sb[i], jb[i])]
  /\ throttle_down \in BOOLEAN
  /\ brake_down = FALSE
  /\ jump_down = FALSE
  /\ engine_on = TRUE
  /\ countdown_start_ms = 0
  /\ race_start_ms = 4 * FrameMs
  /\ sim_ms = MaxRaceMs - TickDepth * FrameMs
  /\ last_t = race_start_ms + sim_ms
  /\ hud_ms = sim_ms
  /\ finish_announced = FALSE
  /\ best_time_ms \in FinishBests
  /\ camera_x = 0
  /\ races = 1
  /\ obs_gen = 0
  /\ idle = 0
  /\ inputs = MaxInputs
  /\ shown = NoResults
  /\ stored_best = best_time_ms
  /\ race_saves = 0
  /\ mid = << >>
  /\ hit_x = [k \in 1..(1 + BOT_COUNT) |-> None]
  /\ center = ""
  /\ cues = << "3", "1" >>
  /\ beeps = << FALSE, FALSE >>
  /\ btn_throttle_active = throttle_down
  /\ btn_brake_active = brake_down
  /\ decided = << >>

SpecFinish == InitFinish /\ [][Frame]_vars

\* C12: in results the ranking handed to the results screen has one row per
\* vehicle, each with the vehicle's name and finish time, in non-decreasing
\* order of time, rows of equal time in registration order (player, Bot 1, ...).
C12_RankingStableAscending ==
  state = "results" =>
    LET V == << player >> \o bots
        n == Len(V)
        rows == shown.rows
    IN  /\ Len(rows) = n
        /\ \E pi \in [1..n -> 1..n] :
             /\ \A j, k \in 1..n : pi[j] = pi[k] => j = k
             /\ \A k \in 1..n :
                  rows[k] = [name |-> V[pi[k]].name, ms |-> V[pi[k]].finish_time_ms]
             /\ \A k \in 1..(n - 1) :
                  \/ rows[k].ms < rows[k + 1].ms
                  \/ rows[k].ms = rows[k + 1].ms /\ pi[k] < pi[k + 1]

\* C12 witness: results with the player and a bot finished in the same tick
C12_Witness ==
  /\ state = "results"
  /\ \E i \in 1..Len(bots) : bots[i].finish_time_ms = player.finish_time_ms

\* C13: in results the player's placement is the rank of the player's own row,
\* one more than the number of bots that finished earlier, and victory is
\* signalled exactly when no bot finished earlier, whatever the player's name.
C13_PlacementOfOwnEntry ==
  state = "results" =>
    LET ahead == { i \in 1..Len(bots) :
                     bots[i].finish_time_ms < player.finish_time_ms }
    IN  /\ shown.player_place = 1 + Cardinality(ahead)
        /\ shown.player_won <=> ahead = {}

\* C14: _save_best is called only in the step that enters results, at most once
\* per race, with the player's finish time, and only if no best time was stored
\* or the player's time is smaller; best_time_ms changes only to a smaller value
\* (or from None) and on entering results is at most the player's finish time.
C14_BestTimeOnlyImproves ==
  [][ /\ race_saves' <= 1
      /\ race_saves' # race_saves
         => \/ races' # races /\ race_saves' = 0
            \/ /\ state # "results" /\ state' = "results"
               /\ best_time_ms = None \/ player'.finish_time_ms < best_time_ms
               /\ stored_best' = player'.finish_time_ms
               /\ best_time_ms' = player'.finish_time_ms
      /\ stored_best' # stored_best \/ best_time_ms' # best_time_ms
         => race_saves' = race_saves + 1
      /\ best_time_ms' # best_time_ms
         => best_time_ms = None \/ best_time_ms' < best_time_ms
      /\ state # "results" /\ state' = "results"
         => best_time_ms' # None /\ best_time_ms' <= player'.finish_time_ms ]_vars

\* C14 witness: results entered without a save, the stored best being smaller
C14_Witness ==
  /\ state = "results"
  /\ race_saves = 0
  /\ best_time_ms # None
  /\ best_time_ms < player.finish_time_ms

----------------------------------------------------------------------------
(* The obstacle generator on its own.  SpecGen starts inside Game.__init__  *)
(* before line 606 and runs ObstacleField(length) once, for track lengths   *)
(* and gap draws that give fields of up to four obstacles.                  *)

GenLengths == {TRACK_LEN, 150000}
GenGaps == {OBSTACLE_SPACING_MIN, 40000, OBSTACLE_SPACING_MAX}

InitGen ==
  /\ state = "home"
  /\ paused = FALSE
  /\ pc = "idle"
  /\ obs_field = << >>
  /\ player = reset(Bike("Player", FALSE), None, None)
  /\ bots = << >>
  /\ throttle_down = FALSE
  /\ brake_down = FALSE
  /\ jump_down = FALSE
  /\ engine_on = FALSE
  /\ countdown_start_ms = None
  /\ race_start_ms = None
  /\ finish_announced = FALSE
  /\ best_time_ms \in BestLoads
  /\ camera_x = 0
  /\ last_t = 0
  /\ hud_ms = 0
  /\ sim_ms = 0
  /\ races = 0
  /\ obs_gen = 0
  /\ idle = 0
  /\ inputs = 0
  /\ shown = NoResults
  /\ stored_best = best_time_ms
  /\ race_saves = 0
  /\ mid = << >>
  /\ hit_x = << >>
  /\ center = ""
  /\ cues = << >>
  /\ beeps = << >>
  /\ btn_throttle_active = throttle_down
  /\ btn_brake_active = brake_down
  /\ decided = << >>

\* self.obs_field = ObstacleField(length), line 606
Construct ==
  /\ obs_field = << >>
  /\ \E length \in GenLengths : obs_field' \in ObstacleField(length, GenGaps)
  /\ UNCHANGED << state, paused, pc, player, bots, throttle_down, brake_down,
                  jump_down, engine_on, countdown_start_ms, race_start_ms,
                  finish_announced, best_time_ms, camera_x, last_t, hud_ms, sim_ms,
                  races, obs_gen, idle, inputs, shown, stored_best, race_saves,
                  mid, hit_x, center, cues, beeps, btn_throttle_active,
                  btn_brake_active, decided >>

SpecGen == InitGen /\ [][Construct]_vars

\* C15: in a generated field every obstacle lies at least the minimum gap and
\* at most the maximum gap behind its predecessor (the first one behind the
\* cursor's start, 400), so the positions are strictly increasing.
C15_ObstacleSpacing ==
  \A i \in 1..Len(obs_field) :
    LET prev == IF i = 1 THEN 40000 ELSE obs_field[i - 1].x
        gap  == obs_field[i].x - prev
    IN  OBSTACLE_SPACING_MIN <= gap /\ gap <= OBSTACLE_SPACING_MAX

\* C15 witness: a field of three obstacles with a minimum and a maximum gap
C15_Witness ==
  /\ Len(obs_field) >= 3
  /\ obs_field[2].x - obs_field[1].x = OBSTACLE_SPACING_MIN
  /\ obs_field[3].x - obs_field[2].x = OBSTACLE_SPACING_MAX

\* C16: in the field of the track the first obstacle lies behind the start
\* buffer (x > 400) and the last one in front of the finish buffer
\* (x < TRACK_LEN - 200).
C16_ObstacleBuffers ==
  obs_field # << >> =>
    /\ obs_field[1].x > 40000
    /\ obs_field[Len(obs_field)].x < TRACK_LEN - 20000

----------------------------------------------------------------------------
(* A slow player at the first obstacle.  SpecLinger starts the frame loop   *)
(* with the bots already finished and the player creeping into the first    *)
(* obstacle, and runs long enough for the player to land after a bump.      *)

LingerSpeeds == {100, 300}

InitLinger ==
  /\ state = "running"
  /\ paused = FALSE
  /\ pc = "idle"
  /\ obs_field \in ObstacleField(TRACK_LEN, RaceGaps)
  /\ sim_ms = MaxRaceMs - LingerDepth * FrameMs
  /\ \E vx \in LingerSpeeds :
       player = MidRaceBike("Player", FALSE, 67950, vx, FALSE, None, None)
  /\ \E sb \in [1..BOT_COUNT -> SpeedBiases], jb \in [1..BOT_COUNT -> JumpBiases] :
       bots = [i \in 1..BOT_COUNT |->
                 [MidRaceBike(BotName(i), TRUE, TRACK_LEN + 1000, 1300, FALSE,
                              sb[i], jb[i])
                    EXCEPT !.finished = TRUE, !.finish_time_ms = sim_ms - FrameMs]]
  /\ throttle_down \in BOOLEAN
  /\ brake_down = FALSE
  /\ jump_down = FALSE
  /\ engine_on \in BOOLEAN
  /\ countdown_start_ms = 0
  /\ race_start_ms = 4 * FrameMs
  /\ last_t = race_start_ms + sim_ms
  /\ hud_ms = sim_ms
  /\ finish_announced = FALSE
  /\ best_time_ms = None
  /\ camera_x = 0
  /\ races = 1
  /\ obs_gen = 0
  /\ idle = 0
  /\ inputs = MaxInputs
  /\ shown = NoResults
  /\ stored_best = best_time_ms
  /\ race_saves = 0
  /\ mid = << >>
  /\ hit_x = [k \in 1..(1 + BOT_COUNT) |-> None]
  /\ center = ""
  /\ cues = << "3", "1" >>
  /\ beeps = << FALSE, FALSE >>
  /\ btn_throttle_active = throttle_down
  /\ btn_brake_active = brake_down
  /\ decided = << >>

SpecLinger == InitLinger /\ [][Frame]_vars

\* a step in which a frame ran the physics
Ticked ==
  /\ last_t' # last_t
  /\ state \in {"countdown", "running"}
  /\ state' \in {"running", "results"}

\* C17: an obstacle's effect is not applied again to a vehicle that has not
\* left the place where an effect was last applied to it: a tick in which
\* apply_obstacle_effects lifts a vehicle off the ground leaves it at another
\* x than the one it had when an effect was applied the time before.
C17_EffectOncePerApproach ==
  [][ Ticked =>
        \A k \in 1..Len(mid') :
          LET v == IF k = 1 THEN player' ELSE bots'[k - 1]
          IN  mid'[k].on_ground /\ ~v.on_ground /\ hit_x[k] # None
              => v.x # hit_x[k] ]_vars

\* C18: a vehicle that update_physics leaves grounded and unfinished, that had
\* positive speed at the start of the tick and that overlaps a rock or a log,
\* ends the tick airborne with vertical velocity -5.0 and with a speed below
\* the one it started the tick with and not below 0; a vehicle that is airborne
\* when it overlaps a rock, a log or a ramp keeps its speed, its vertical
\* velocity and its grounded flag through apply_obstacle_effects.
C18_BumpAndAirborneImmunity ==
  [][ Ticked =>
        \A k \in 1..Len(mid') :
          LET b == IF k = 1 THEN player ELSE bots[k - 1]
              v == IF k = 1 THEN player' ELSE bots'[k - 1]
              m == mid'[k]
              over == { i \in 1..Len(obs_field) :
                          /\ Abs(obs_field[i].x - m.x) <= 8000
                          /\ collides(obs_field[i], m.x, m.y + 2800) }
          IN  /\ ( /\ m.on_ground /\ ~m.finished /\ b.vx > 0
                   /\ \E i \in over : obs_field[i].kind \in {"rock", "log"} )
                 => /\ ~v.on_ground
                    /\ v.vy = 0 - 500
                    /\ 0 <= v.vx /\ v.vx < b.vx
              /\ ~m.on_ground /\ over # {}
                 => v.vx = m.vx /\ v.vy = m.vy /\ v.on_ground = m.on_ground ]_vars

\* C18 witness: the player has just been bumped to a standstill
C18_Witness ==
  /\ mid # << >>
  /\ mid[1].on_ground /\ mid[1].vx > 0
  /\ ~player.on_ground /\ player.vy = 0 - 500 /\ player.vx = 0
  /\ \E i \in 1..Len(bots) :
       /\ ~mid[i + 1].on_ground
       /\ Abs(obs_field[1].x - mid[i + 1].x) <= 8000
       /\ collides(obs_field[1], mid[i + 1].x, mid[i + 1].y + 2800)

\* C19: every running tick leaves jump_down false; the player takes off by a
\* jump only in a tick that found jump_down set; and jump_down is set only by a
\* jump press that arrives while the state is running. So a press is consumed by
\* the next tick and causes at most one take-off, however long the button is held.
C19_JumpEdgeTriggered ==
  [][ /\ Ticked => ~jump_down'
      /\ Ticked /\ player.on_ground /\ ~mid'[1].on_ground => jump_down
      /\ jump_down' /\ ~jump_down => last_t' = last_t /\ state = "running" ]_vars

\* C19 witness: the player has just taken off by a jump, the intent consumed
C19_Witness ==
  /\ state = "running"
  /\ ~jump_down
  /\ ~player.on_ground
  /\ player.vy = 0 - JUMP_VY

\* C20 as stated: a running tick with the engine off never leaves the player
\* faster than it found it, whether or not the throttle is held.
C20_EngineGate ==
  [][ Ticked /\ ~engine_on => player'.vx <= player.vx ]_vars

\* C20 amended: in a running tick with the engine off update_physics never
\* raises the player's speed, whether or not the throttle is held; the speed at
\* the end of the tick exceeds the speed at its start only if a ramp launched
\* the player in that tick, and then by at most the ramp's boost of 1.0 and not
\* beyond MAX_SPEED.
C20_EngineGateExceptRamp ==
  [][ Ticked /\ ~engine_on =>
        /\ mid'[1].vx <= player.vx
        /\ \/ player'.vx <= player.vx
           \/ /\ mid'[1].on_ground /\ ~player'.on_ground
              /\ player'.vy = 0 - ((JUMP_VY * 11) \div 10)
              /\ player'.vx <= Min(MAX_SPEED, player.vx + 100) ]_vars

\* C20 witness: throttle held with the engine off, and a ramp has just launched
\* the player faster than update_physics had left it
C20_Witness ==
  /\ ~engine_on /\ throttle_down
  /\ mid # << >>
  /\ ~player.on_ground
  /\ player.vy = 0 - ((JUMP_VY * 11) \div 10)
  /\ player.vx > mid[1].vx

----------------------------------------------------------------------------
(* A whole race under constant inputs.  SpecRace runs the frame loop of a   *)
(* race that stays running, from the start line and from a state later in   *)
(* the race with both vehicles close to the first obstacle, the player      *)
(* slow.  The player's held inputs are drawn once and kept; frames keep     *)
(* arriving until LongRaceMs of race time have passed,                      *)
(* which is enough for every vehicle that moves at all to finish and for    *)
(* every flight to end.                                                     *)

\* where the vehicles are, how fast, and how long the race has been running
RaceStarts ==
  { [px |-> 4000, pvx |-> 0, bx |-> 4000, bvx |-> 0, ms |-> 0],
    [px |-> 67950, pvx |-> 100, bx |-> 66000, bvx |-> 1300, ms |-> 80000] }

InitRace ==
  /\ state = "running"
  /\ paused = FALSE
  /\ pc = "idle"
  /\ obs_field \in ObstacleField(TRACK_LEN, RaceGaps)
  /\ \E s \in RaceStarts, sb \in [1..BOT_COUNT -> SpeedBiases],
        jb \in [1..BOT_COUNT -> JumpBiases] :
       /\ player = MidRaceBike("Player", FALSE, s.px, s.pvx, FALSE, None, None)
       /\ bots = [i \in 1..BOT_COUNT |->
                    MidRaceBike(BotName(i), TRUE, s.bx, s.bvx, FALSE, sb[i], jb[i])]
       /\ sim_ms = s.ms
  /\ throttle_down \in BOOLEAN
  /\ brake_down \in BOOLEAN
  /\ jump_down \in BOOLEAN
  /\ engine_on \in BOOLEAN
  /\ countdown_start_ms = 0
  /\ race_start_ms = 4 * FrameMs
  /\ last_t = race_start_ms + sim_ms
  /\ hud_ms = sim_ms
  /\ finish_announced = FALSE
  /\ best_time_ms = None
  /\ camera_x = 0
  /\ races = 1
  /\ obs_gen = 0
  /\ idle = 0
  /\ inputs = MaxInputs
  /\ shown = NoResults
  /\ stored_best = best_time_ms
  /\ race_saves = 0
  /\ mid = << >>
  /\ hit_x = [k \in 1..(1 + BOT_COUNT) |-> None]
  /\ center = ""
  /\ cues = << "3", "1" >>
  /\ beeps = << FALSE, FALSE >>
  /\ btn_throttle_active = throttle_down
  /\ btn_brake_active = brake_down
  /\ decided = << >>

\* window.requestAnimationFrame(self._loop) in a race of up to LongRaceMs
LongFrame ==
  /\ pc = "idle"
  /\ IF Active THEN sim_ms < LongRaceMs ELSE idle < MaxIdle
  /\ \E draws \in [1..BOT_COUNT -> BOOLEAN] : Loop(last_t + FrameMs, draws)

SpecRace == InitRace /\ [][LongFrame]_vars

\* the frames of SpecRace have stopped with the race still running
TimeUp == sim_ms >= LongRaceMs

\* C21 as stated: a race in which the throttle is held and the engine is on at
\* every tick does not run out of frames with the player short of the finish:
\* when the frames stop the player is finished at a position at or past the
\* track length, whatever the obstacle field.
C21_ThrottleReachesFinish ==
  throttle_down /\ engine_on /\ TimeUp
    => player.finished /\ player.x >= TRACK_LEN

\* C21 amended: a race in which the throttle is held, the brake is not held and
\* the engine is on at every tick does not run out of frames with the player
\* short of the finish: when the frames stop the player is finished at a
\* position at or past the track length, whatever the obstacle field.
C21_ThrottleAloneReachesFinish ==
  throttle_down /\ ~brake_down /\ engine_on /\ TimeUp
    => player.finished /\ player.x >= TRACK_LEN

\* C21 witness: the player has finished under throttle after an obstacle took
\* effect on it near the first obstacle
C21_Witness ==
  /\ throttle_down /\ ~brake_down /\ engine_on
  /\ player.finished /\ player.x >= TRACK_LEN
  /\ hit_x[1] # None /\ hit_x[1] < 70000

\* C22 as stated: a race that stays running does not run out of frames with a
\* vehicle unfinished, whatever the player's inputs: when the frames stop the
\* player and every bot are finished, so the state has become results.
C22_EveryVehicleFinishes ==
  TimeUp => all_finished(player, bots) /\ state = "results"

\* C22 amended: a race that stays running does not run out of frames with a bot
\* unfinished, whatever the player's inputs; the player finishes if the
\* throttle is held with the engine on and the brake released; and the state
\* is results exactly when the player and every bot are finished.
C22_EveryBotFinishes ==
  /\ TimeUp => \A i \in 1..Len(bots) : bots[i].finished
  /\ TimeUp /\ throttle_down /\ ~brake_down /\ engine_on => player.finished
  /\ state = "results" <=> all_finished(player, bots)

\* C22 witness: the frames have stopped with every bot finished and the player,
\* its throttle never opened, still on the start line
C22_Witness ==
  /\ TimeUp
  /\ \A i \in 1..Len(bots) : bots[i].finished
  /\ ~player.finished /\ player.x = 4000

C23_FinishedVehicleFrozen ==
  [][ races' = races =>
        \A k \in 0..Len(bots) :
          LET b == IF k = 0 THEN player ELSE bots[k]
              c == IF k = 0 THEN player' ELSE bots'[k]
          IN  b.finished
              => /\ c.finished
                 /\ c.x = b.x /\ c.vx = b.vx
                 /\ c.y = b.y /\ c.vy = b.vy
                 /\ c.on_ground = b.on_ground ]_vars

\* C23 witness: a bot finished at speed two or more ticks ago, the player is
\* still racing
C23_Witness ==
  /\ state = "running"
  /\ ~player.finished /\ player.vx > 0
  /\ \E i \in 1..Len(bots) :
       /\ bots[i].finished /\ bots[i].vx > 0
       /\ bots[i].finish_time_ms # None
       /\ bots[i].finish_time_ms + 2 * FrameMs <= hud_ms

\* C24: for the player and every bot, the position is at or past TRACK_LEN
\* exactly when the vehicle is marked finished.
C24_FinishedIffPastTrackEnd ==
  \A k \in 0..Len(bots) :
    LET b == IF k = 0 THEN player ELSE bots[k]
    IN  b.x >= TRACK_LEN <=> b.finished

\* C24 witness: a bot is past the track end and finished while the player,
\* under way, is neither
C24_Witness ==
  /\ player.x > 4000 /\ player.x < TRACK_LEN /\ ~player.finished
  /\ \E i \in 1..Len(bots) : bots[i].x >= TRACK_LEN /\ bots[i].finished

----------------------------------------------------------------------------
(* bot_decide on its own.  SpecDecide draws a vehicle (a bot or not,        *)
(* finished or not, in front of, at and behind the obstacles, at rest, at   *)
(* its target speed and at full speed) and a generated field of one or two  *)
(* obstacles, and runs line 970 of _step once.                              *)

DecideLength == 100000   \* SpecDecide draws its fields for a track this long
DecideXs == {54000, 58000, 62000, 67000, 68000, 70000, 90000, 96000}
DecideSpeeds == {0, 100, 1300, 1320, MAX_SPEED}

InitDecide ==
  /\ state = "running"
  /\ paused = FALSE
  /\ pc = "idle"
  /\ obs_field \in ObstacleField(DecideLength, GenGaps)
  /\ player = reset(Bike("Player", FALSE), None, None)
  /\ \E is_bot \in BOOLEAN, fin \in BOOLEAN, x \in DecideXs, vx \in DecideSpeeds,
        sb \in SpeedBiases, jb \in JumpBiases :
       bots = << [MidRaceBike(IF is_bot THEN BotName(1) ELSE "Player", is_bot, x, vx,
                              FALSE, IF is_bot THEN sb ELSE None,
                              IF is_bot THEN jb ELSE None)
                    EXCEPT !.finished = fin] >>
  /\ throttle_down = FALSE
  /\ brake_down = FALSE
  /\ jump_down = FALSE
  /\ engine_on = FALSE
  /\ countdown_start_ms = 0
  /\ race_start_ms = 4 * FrameMs
  /\ sim_ms = 0
  /\ last_t = race_start_ms + sim_ms
  /\ hud_ms = sim_ms
  /\ finish_announced = FALSE
  /\ best_time_ms = None
  /\ camera_x = 0
  /\ races = 1
  /\ obs_gen = 0
  /\ idle = 0
  /\ inputs = MaxInputs
  /\ shown = NoResults
  /\ stored_best = best_time_ms
  /\ race_saves = 0
  /\ mid = << >>
  /\ hit_x = [k \in 1..(1 + Len(bots)) |-> None]
  /\ center = ""
  /\ cues = << "3", "1" >>
  /\ beeps = << FALSE, FALSE >>
  /\ btn_throttle_active = throttle_down
  /\ btn_brake_active = brake_down
  /\ decided = << >>

\* t_on, j_on = b.bot_decide(self.obs_field), line 970, for every b of self.bots
Decide ==
  /\ decided = << >>
  /\ \E r \in [1..Len(bots) -> BOOLEAN] :
       decided' = [i \in 1..Len(bots) |-> bot_decide(bots[i], obs_field, r[i])]
  /\ UNCHANGED << state, paused, pc, obs_field, player, bots, throttle_down,
                  brake_down, jump_down, engine_on, countdown_start_ms,
                  race_start_ms, finish_announced, best_time_ms, camera_x, last_t,
                  hud_ms, sim_ms, races, obs_gen, idle, inputs, shown, stored_best,
                  race_saves, mid, hit_x, center, cues, beeps,
                  btn_throttle_active, btn_brake_active >>

SpecDecide == InitDecide /\ [][Decide]_vars

\* the obstacles of the field at or ahead of x
Upcoming(x) == { j \in 1..Len(obs_field) : obs_field[j].x >= x }

\* C25: whenever bot_decide is called, it returns (false, false) for a finished
\* vehicle and for a vehicle that is not a bot; for an unfinished bot the
\* throttle is true exactly when vx < speed_bias * MAX_SPEED, and the jump is
\* true only if there is an obstacle at or ahead of the bot and the nearest
\* such obstacle is no farther away than 90 + 2 * vx and, if it is a rock or a
\* log, nearer than 60 + 1.2 * vx.
C25_BotDecide ==
  [][ decided' # decided =>
        \A i \in 1..Len(decided') :
          LET b == bots[i]
              d == decided'[i]
          IN  /\ b.finished \/ ~b.is_bot => d = << FALSE, FALSE >>
              /\ b.is_bot /\ ~b.finished
                 => /\ d[1] <=> b.vx * 100 < b.speed_bias * MAX_SPEED
                    /\ d[2] =>
                         /\ Upcoming(b.x) # {}
                         /\ \E n \in Upcoming(b.x) :
                              /\ \A j \in Upcoming(b.x) : obs_field[n].x <= obs_field[j].x
                              /\ obs_field[n].x - b.x <= 9000 + 2 * b.vx
                              /\ obs_field[n].kind # "ramp"
                                 => 10 * (obs_field[n].x - b.x) < 60000 + 12 * b.vx ]_vars

\* C25 witness: a bot has decided to jump at the second obstacle of the field,
\* a rock or a log, with the throttle closed
C25_Witness ==
  /\ decided # << >>
  /\ decided[1] = << FALSE, TRUE >>
  /\ Len(obs_field) = 2
  /\ bots[1].x > obs_field[1].x
  /\ obs_field[2].kind # "ramp"

\* C26: the state leaves countdown only in a frame at which at least
\* COUNTDOWN_MS have passed since countdown_start_ms, and then for running with
\* race_start_ms set to the time of that frame; whenever the state is running,
\* paused or results, race_start_ms is not None; and an event that is neither a
\* frame nor a race setup leaves a countdown in progress and its start
\* timestamp as they are.
C26_CountdownRunsItsLength ==
  [][ /\ state = "countdown" /\ state' # "countdown"
         => /\ last_t' # last_t
            /\ last_t' - countdown_start_ms >= COUNTDOWN_MS
            /\ state' = "running"
            /\ race_start_ms' = last_t'
      /\ state' \in {"running", "paused", "results"} => race_start_ms' # None
      /\ ( /\ state = "countdown" /\ pc = "idle"
           /\ last_t' = last_t /\ races' = races )
         => state' = "countdown" /\ countdown_start_ms' = countdown_start_ms ]_vars

\* C29: the paused flag is true exactly when the state is paused.
C29_PausedFlagIffPausedState ==
  paused <=> state = "paused"

\* C29 witness: home, reached by an exit from a race that was paused at its
\* first tick and saw one frame go by while paused
C29_Witness ==
  /\ state = "home" /\ ~paused
  /\ races = 1 /\ inputs = 3
  /\ ~engine_on /\ ~throttle_down /\ ~brake_down /\ ~jump_down
  /\ ~btn_throttle_active /\ ~btn_brake_active
  /\ race_start_ms # None
  /\ last_t = race_start_ms + MaxIdle * FrameMs
  /\ sim_ms = 0

----------------------------------------------------------------------------
(* A countdown under fast frames.  SpecCountdown starts where start_race    *)
(* has returned and lets frames arrive 50 ms or 400 ms apart, both shorter  *)
(* than the 800 ms of a countdown stage, until the race is running.         *)

CountdownSteps == {50, 400}

InitCountdown ==
  /\ state = "countdown"
  /\ paused = FALSE
  /\ pc = "idle"
  /\ obs_field \in ObstacleField(TRACK_LEN, RaceGaps)
  /\ player = reset(Bike("Player", FALSE), None, None)
  /\ \E sb \in [1..BOT_COUNT -> SpeedBiases], jb \in [1..BOT_COUNT -> JumpBiases] :
       bots = [i \in 1..BOT_COUNT |-> reset(Bike(BotName(i), TRUE), sb[i], jb[i])]
  /\ throttle_down = FALSE
  /\ brake_down = FALSE
  /\ jump_down = FALSE
  /\ engine_on \in BOOLEAN
  /\ last_t = MaxIdle * FrameMs
  /\ countdown_start_ms = last_t
  /\ race_start_ms = None
  /\ finish_announced = FALSE
  /\ best_time_ms = None
  /\ camera_x = 0
  /\ hud_ms = 0
  /\ sim_ms = 0
  /\ races = 1
  /\ obs_gen = 0
  /\ idle = 0
  /\ inputs = MaxInputs
  /\ shown = NoResults
  /\ stored_best = best_time_ms
  /\ race_saves = 0
  /\ mid = << >>
  /\ hit_x = [k \in 1..(1 + BOT_COUNT) |-> None]
  /\ center = ""
  /\ cues = << >>
  /\ beeps = << FALSE >>
  /\ btn_throttle_active = FALSE
  /\ btn_brake_active = FALSE
  /\ decided = << >>

\* window.requestAnimationFrame(self._loop) during a countdown
CountdownFrame ==
  /\ pc = "idle"
  /\ state = "countdown"
  /\ \E d \in CountdownSteps, draws \in [1..BOT_COUNT -> BOOLEAN] :
       Loop(last_t + d, draws)

SpecCountdown == InitCountdown /\ [][CountdownFrame]_vars

\* C27: when a countdown ends and the state becomes running, the centre text
\* has shown "3", "2", "1" and "GO!" in this order and nothing else, and the
\* countdown has beeped once for each of the four, the last beep being the
\* distinct final one.
C27_CountdownCues ==
  [][ state = "countdown" /\ state' = "running"
      => /\ cues' = << "3", "2", "1", "GO!" >>
         /\ beeps' = << FALSE, FALSE, FALSE, TRUE >> ]_vars

----------------------------------------------------------------------------
(* Held buttons across a change of state.  SpecHeld starts in the middle of *)
(* a running race, with the throttle and the brake button held or not,      *)
(* three external events before the bound MaxInputs, and runs the frame     *)
(* loop, the pause toggle and the two buttons.                              *)

InitHeld ==
  /\ state = "running"
  /\ paused = FALSE
  /\ pc = "idle"
  /\ obs_field \in ObstacleField(TRACK_LEN, RaceGaps)
  /\ player = MidRaceBike("Player", FALSE, 30000, 100, FALSE, None, None)
  /\ \E sb \in [1..BOT_COUNT -> SpeedBiases], jb \in [1..BOT_COUNT -> JumpBiases] :
       bots = [i \in 1..BOT_COUNT |->
                 MidRaceBike(BotName(i), TRUE, 66000, 1300, FALSE, sb[i], jb[i])]
  /\ throttle_down \in BOOLEAN
  /\ brake_down \in BOOLEAN
  /\ jump_down = FALSE
  /\ engine_on \in BOOLEAN
  /\ countdown_start_ms = 0
  /\ race_start_ms = 4 * FrameMs
  /\ sim_ms = 2 * InputPeriod * FrameMs
  /\ last_t = race_start_ms + sim_ms
  /\ hud_ms = sim_ms
  /\ finish_announced = FALSE
  /\ best_time_ms = None
  /\ camera_x = 0
  /\ races = 1
  /\ obs_gen = 0
  /\ idle = 0
  /\ inputs = MaxInputs - 3
  /\ shown = NoResults
  /\ stored_best = best_time_ms
  /\ race_saves = 0
  /\ mid = << >>
  /\ hit_x = [k \in 1..(1 + BOT_COUNT) |-> None]
  /\ center = ""
  /\ cues = << "3", "1" >>
  /\ beeps = << FALSE, FALSE >>
  /\ btn_throttle_active = throttle_down
  /\ btn_brake_active = brake_down
  /\ decided = << >>

HeldNext ==
  \/ Frame
  \/ TogglePause
  \/ OnThrottle("down")
  \/ OnThrottle("up")
  \/ OnBrake("down")
  \/ OnBrake("up")

SpecHeld == InitHeld /\ [][HeldNext]_vars

\* C30: throttle_down is true only while the throttle button is held, and
\* brake_down only while the brake button is held.
C30_HeldFlagsTrackButtons ==
  /\ throttle_down => btn_throttle_active
  /\ brake_down => btn_brake_active

----------------------------------------------------------------------------
(* Jump requests across a race setup.  SpecJump starts in the middle of a   *)
(* running race with the player on the ground or in the air and no request  *)
(* pending, three external events before the bound MaxInputs and one race   *)
(* setup before the bound MaxRaces, and runs the frame loop, the jump       *)
(* button, the pause toggle and restart.                                    *)

InitJump ==
  /\ state = "running"
  /\ paused = FALSE
  /\ pc = "idle"
  /\ obs_field \in ObstacleField(TRACK_LEN, RaceGaps)
  /\ \E air \in BOOLEAN :
       player = MidRaceBike("Player", FALSE, 30000, 100, air, None, None)
  /\ \E sb \in [1..BOT_COUNT -> SpeedBiases], jb \in [1..BOT_COUNT -> JumpBiases] :
       bots = [i \in 1..BOT_COUNT |->
                 MidRaceBike(BotName(i), TRUE, 66000, 1300, FALSE, sb[i], jb[i])]
  /\ throttle_down = FALSE
  /\ brake_down = FALSE
  /\ jump_down = FALSE
  /\ engine_on = TRUE
  /\ countdown_start_ms = 0
  /\ race_start_ms = 4 * FrameMs
  /\ sim_ms = 2 * InputPeriod * FrameMs
  /\ last_t = race_start_ms + sim_ms
  /\ hud_ms = sim_ms
  /\ finish_announced = FALSE
  /\ best_time_ms = None
  /\ camera_x = 0
  /\ races = MaxRaces - 1
  /\ obs_gen = 0
  /\ idle = 0
  /\ inputs = MaxInputs - 3
  /\ shown = NoResults
  /\ stored_best = best_time_ms
  /\ race_saves = 0
  /\ mid = << >>
  /\ hit_x = [k \in 1..(1 + BOT_COUNT) |-> None]
  /\ center = ""
  /\ cues = << "3", "1" >>
  /\ beeps = << FALSE, FALSE >>
  /\ btn_throttle_active = throttle_down
  /\ btn_brake_active = brake_down
  /\ decided = << >>

JumpNext ==
  \/ Frame
  \/ OnJump
  \/ TogglePause
  \/ Restart
  \/ BeginCountdown

SpecJump == InitJump /\ [][JumpNext]_vars

\* C31 as stated: no double jump. A running tick that finds a vehicle in the
\* air moves it exactly as it would with no jump request, for the player
\* (jump_down) and for every bot (the jump bot_decide returned); and a request
\* of the player's that is pending while the player is in the air is never
\* still pending once the player is on the ground.
C31_NoDoubleJump ==
  [][ /\ Ticked /\ ~player.on_ground
         => mid'[1] = update_physics(player, throttle_intent(throttle_down, engine_on),
                                     brake_down, FALSE)
      /\ Ticked
         => \A i \in 1..Len(bots) :
              ~bots[i].on_ground
              => mid'[i + 1] = update_physics(bots[i], decided'[i][1], FALSE, FALSE)
      /\ jump_down /\ ~player.on_ground
         => ~(jump_down' /\ player'.on_ground) ]_vars

====
